---- MODULE Spec2Model ----
(***************************************************************************)
(* Model of src/main.py: a FastAPI service that keeps one OAuth credential *)
(* row (provider = 'tiktok') in a Supabase table, lists the account's      *)
(* videos page by page and relays them to a webhook.                       *)
(*                                                                         *)
(* Every request is a process p that walks through its handler one         *)
(* blocking call at a time (a table read, a table upsert, a provider       *)
(* request, the webhook post).  The provider, the webhook and the clock    *)
(* are the environment: every answer they can give is drawn with \E.       *)
(* The Supabase calls themselves are taken to succeed.                     *)
(*                                                                         *)
(* Spec is the service as section 5 of the specification describes it:     *)
(* one request at a time.  Overlap is two requests served at once, in      *)
(* every interleaving of their reads and writes of the table.              *)
(***************************************************************************)
EXTENDS Integers, Sequences, FiniteSets, TLC

\* ------------------------------------------------------------ bounds
StartClock == 100   \* time.time() when the model starts
TickLen    == 100   \* seconds added by one Tick
MaxTicks   == 1     \* the clock stops after this many ticks
MaxPages   == 3     \* fetch_all_videos may request this many pages

\* ------------------------------------------------- program constants
Margin           == 60     \* "margen de 60s" of upsert_tokens
DefaultExpiresIn == 3600   \* data.get("expires_in", 3600)
BadRequest       == 400    \* force_refresh's HTTPException status
MAX_COUNT        == 20     \* call_n8n's fetch_all_videos(max_count=20)

\* ------------------------------------------------------------ values
Procs == {1, 2}

None == "None"                      \* Python's None, for a string field
NoInt == <<>>                       \* Python's None, for an int field
Some(n) == <<n>>

Truthy(s) == s # None /\ s # ""     \* bool(s) of an Optional[str]

PROVIDER == "tiktok"

AccessTokens  == {"A", "B"}
RefreshTokens == {"R", "S"}
Scopes        == {"video.list"}
OpenIds       == {"u1"}
Lifetimes     == {30, 160}          \* expires_in values the provider declares
ErrorBodies   == {"e1", "e2"}

\* Status codes a response can carry.  requests follows a redirect that
\* names a Location; a 304, or a 3xx without one, is handed to the caller.
Statuses     == {200, 304, 400, 503}
PageStatuses == {200, 304, 503}

\* A response of the provider's token endpoint.  json = FALSE: the body is
\* not JSON, or lacks the access_token key.
TokenBodies ==
  [access_token: AccessTokens, refresh_token: RefreshTokens \cup {None},
   scope: Scopes \cup {None}, expires_in: {NoInt} \cup {Some(n) : n \in Lifetimes}]

\* A response: its status code and the document it holds, "token" for a
\* token document and otherwise an error description or text that is no JSON,
\* of which only the identity matters.
NoResponse == [status_code |-> NoInt, document |-> None]
Response(status, doc) == [status_code |-> Some(status), document |-> doc]

NoBody == [access_token |-> None, refresh_token |-> None, scope |-> None,
           expires_in |-> NoInt]

Fields == {"provider", "account_open_id", "access_token", "refresh_token",
           "scope", "expires_at", "updated_at"}

\* The field projection of /video/list/.
VIDEO_FIELDS ==
  <<"id", "title", "create_time", "cover_image_url", "share_url", "view_count",
    "like_count", "comment_count", "share_count">>

\* ------------------------------------------------- the tokens table
\* A row of the table "tokens"; a column never written is NULL.
NewRow ==
  [provider |-> PROVIDER, account_open_id |-> None, access_token |-> None,
   refresh_token |-> None, scope |-> None, expires_at |-> NoInt,
   updated_at |-> NoInt]

\* An upsert that replaces the row: the columns not in the payload are reset.
MergeReplace(old, payload) ==
  [f \in Fields |-> IF f \in DOMAIN payload THEN payload[f] ELSE NewRow[f]]

\* supabase.table("tokens").upsert(payload, on_conflict="provider"):
\* INSERT ... ON CONFLICT (provider) DO UPDATE SET <the payload's columns>.
Merge(old, payload) ==
  [f \in Fields |-> IF f \in DOMAIN payload THEN payload[f] ELSE old[f]]

\* An upsert that leaves an existing row alone (ON CONFLICT DO NOTHING).
UpsertFirstWins(tbl, payload) ==
  IF {r \in tbl : r.provider = payload.provider} = {}
  THEN tbl \cup {Merge(NewRow, payload)}
  ELSE tbl

\* An upsert without the conflict target: a plain insert.
UpsertInsert(tbl, payload) == tbl \cup {Merge(NewRow, payload)}

Upsert(tbl, payload) ==
  LET hit == {r \in tbl : r.provider = payload.provider}
  IN  IF hit = {} THEN tbl \cup {Merge(NewRow, payload)}
      ELSE (tbl \ hit) \cup {Merge(r, payload) : r \in hit}

\* upsert_tokens without the margin of line 72.
PayloadNoMargin(access_token, refresh_token, scope, expires_in, account_open_id, t) ==
  LET cols == {"provider", "updated_at"}
              \cup (IF access_token # None THEN {"access_token"} ELSE {})
              \cup (IF refresh_token # None THEN {"refresh_token"} ELSE {})
              \cup (IF scope # None THEN {"scope"} ELSE {})
              \cup (IF expires_in # NoInt THEN {"expires_at"} ELSE {})
              \cup (IF account_open_id # None THEN {"account_open_id"} ELSE {})
  IN  [f \in cols |->
         CASE f = "provider" -> PROVIDER
           [] f = "access_token" -> access_token
           [] f = "refresh_token" -> refresh_token
           [] f = "scope" -> scope
           [] f = "expires_at" -> Some(t + expires_in[1])
           [] f = "account_open_id" -> account_open_id
           [] f = "updated_at" -> Some(t)]

\* The payload upsert_tokens builds at clock value t: only the arguments that
\* are not None become columns.
Payload(access_token, refresh_token, scope, expires_in, account_open_id, t) ==
  LET cols == {"provider", "updated_at"}
              \cup (IF access_token # None THEN {"access_token"} ELSE {})
              \cup (IF refresh_token # None THEN {"refresh_token"} ELSE {})
              \cup (IF scope # None THEN {"scope"} ELSE {})
              \cup (IF expires_in # NoInt THEN {"expires_at"} ELSE {})
              \cup (IF account_open_id # None THEN {"account_open_id"} ELSE {})
  IN  [f \in cols |->
         CASE f = "provider" -> PROVIDER
           [] f = "access_token" -> access_token
           [] f = "refresh_token" -> refresh_token
           [] f = "scope" -> scope
           [] f = "expires_at" -> Some(t + expires_in[1] - Margin)
           [] f = "account_open_id" -> account_open_id
           [] f = "updated_at" -> Some(t)]

upsert_tokens(tbl, access_token, refresh_token, scope, expires_in, account_open_id, t) ==
  Upsert(tbl, Payload(access_token, refresh_token, scope, expires_in, account_open_id, t))

\* get_tokens_row's query: .eq("provider", "tiktok").limit(1)
SelectTokens(tbl) ==
  LET hit == {r \in tbl : r.provider = PROVIDER}
  IN  IF hit = {} THEN {} ELSE {CHOOSE r \in hit : TRUE}

\* rows[0] if rows else None, as a set of at most one row
HasRow(rs) == rs # {}
RowOf(rs) == CHOOSE r \in rs : TRUE

\* Line 92 that reads no expires_at at all.
ExpiresAtIgnored(r) == 0

\* row.get("expires_at") or 0
ExpiresAtOr0(r) == IF r.expires_at = NoInt THEN 0 ELSE r.expires_at[1]

\* ------------------------------------------------------------- state
VARIABLES
  clock,          \* time.time()
  table,          \* the Supabase table "tokens": a set of rows
  pc,             \* pc[p]: where request p stands in its handler
  handler,        \* handler[p]: "run" (GET /), "callback", "refresh" or "none"
  rows,           \* rows[p]: what p's last get_tokens_row query returned
  now,            \* now[p]: get_valid_access_token's local now, while it runs
  refresh_token,  \* refresh_token[p]: refresh_access_token's argument
  resp,           \* resp[p]: the token endpoint's response (status, document)
  data,           \* data[p]: resp.json() of the token endpoint
  token,          \* token[p]: the access token p holds
  cursor,         \* cursor[p]: fetch_all_videos' cursor
  all_items,      \* all_items[p]: fetch_all_videos' accumulated list
  page,           \* page[p]: fetch_all_videos' page counter
  open_id,        \* open_id[p]: oauth_callback's open_id
  result,         \* result[p]: what the endpoint answered
  obs,            \* obs[p]: what the environment saw of request p (history)
  lastWrite       \* the last upsert of a token response (history)

locals == <<rows, now, refresh_token, resp, data, token, cursor, all_items, page, open_id>>
vars == <<clock, table, pc, handler, locals, result, obs, lastWrite>>

\* ------------------------------------------------ results and errors
NoResult ==
  [outcome |-> "none", ok |-> FALSE, error |-> "none", status_code |-> NoInt,
   body |-> None, n8n_status |-> NoInt, count |-> NoInt, expires_at |-> NoInt]

\* An exception: RuntimeError (configuration), HTTPException (raised by this
\* code with a status and a detail), HTTPError (raise_for_status),
\* ConnectionError (no response) or ValueError (a body that does not parse).
Exc(kind, status, body) == [kind |-> kind, status |-> status, body |-> body]

\* A handler that returns a body.
Returned(ok, n8n_status, count, expires_at) ==
  [NoResult EXCEPT !.outcome = "returned", !.ok = ok, !.n8n_status = n8n_status,
                   !.count = count, !.expires_at = expires_at]

\* run_now's except clause: {"ok": False, "error": str(e)}
Caught(e) ==
  [NoResult EXCEPT !.outcome = "returned", !.ok = FALSE, !.error = e.kind,
                   !.status_code = e.status, !.body = e.body]

\* An exception that leaves oauth_callback or force_refresh: the framework
\* answers with the HTTPException's status, or with a server error.
Escaped(e) ==
  [NoResult EXCEPT !.outcome = "raised", !.ok = FALSE, !.error = e.kind,
                   !.status_code = e.status, !.body = e.body]

\* run_now without its try/except.
BoundaryNoCatch(h, e) == Escaped(e)

\* Only run_now catches.
Boundary(h, e) == IF h = "run" THEN Caught(e) ELSE Escaped(e)

\* ----------------------------------------------------------- history
NoObs ==
  [writes |-> 0,             \* upserts the request executed
   refreshReqs |-> 0,        \* refresh requests sent to the token endpoint
   gvat |-> "none",          \* how get_valid_access_token ended
   checks |-> 0,             \* tests of a row's expires_at against the clock
   bearer |-> None,          \* the token the provider API requests carried
   pageReqs |-> 0,           \* page requests sent
   pageStatus |-> NoInt,     \* status of the last page response
   respCursor |-> None,      \* cursor of the last page document
   echo |-> TRUE,            \* every page request so far carried the cursor of
                             \* the document before it, and the first one none
   shape |-> TRUE,           \* every page request so far carried max_count 20
                             \* and the field projection
   sent |-> << >>,           \* videos of the page documents received, in order
   stop |-> FALSE,           \* the last page document ended the listing
   posts |-> 0,              \* posts to the webhook
   posted |-> NoInt,         \* number of items of the last post
   postStatus |-> NoInt,     \* status of the webhook's answer
   exchangeReqs |-> 0,       \* code-exchange requests
   infoReqs |-> 0,           \* user-info requests
   infoStatus |-> NoInt]     \* status of the user-info response

\* No token response has been written yet.
NoWrite ==
  [by |-> 0, gvat |-> FALSE, access_token |-> None, expires_in |-> NoInt,
   expires_at |-> NoInt]

\* Request p's upsert of the token response data[p] turns the table into tbl:
\* who wrote, whether it was the refresh of get_valid_access_token, the
\* response's access_token and expires_in and the expires_at now stored.
Wrote(p, tbl) ==
  [by |-> p, gvat |-> handler[p] = "run", access_token |-> data[p].access_token,
   expires_in |-> data[p].expires_in, expires_at |-> RowOf(SelectTokens(tbl)).expires_at]

Init ==
  /\ clock = StartClock
  /\ table = {}
  /\ pc = [p \in Procs |-> "idle"]
  /\ handler = [p \in Procs |-> "none"]
  /\ rows = [p \in Procs |-> {}]
  /\ now = [p \in Procs |-> NoInt]
  /\ refresh_token = [p \in Procs |-> None]
  /\ resp = [p \in Procs |-> NoResponse]
  /\ data = [p \in Procs |-> NoBody]
  /\ token = [p \in Procs |-> None]
  /\ cursor = [p \in Procs |-> None]
  /\ all_items = [p \in Procs |-> << >>]
  /\ page = [p \in Procs |-> 1]
  /\ open_id = [p \in Procs |-> None]
  /\ result = [p \in Procs |-> NoResult]
  /\ obs = [p \in Procs |-> NoObs]
  /\ lastWrite = NoWrite

\* p's request ends: the answer is in result[p].
Answer(p, r) ==
  /\ result' = [result EXCEPT ![p] = r]
  /\ pc' = [pc EXCEPT ![p] = "done"]

Raise(p, e) == Answer(p, Boundary(handler[p], e))

Goto(p, label) == pc' = [pc EXCEPT ![p] = label] /\ UNCHANGED result

Obs(p, f, v) == obs' = [obs EXCEPT ![p][f] = v]


\* ----------------------------------------------------- the environment
Ticks == (clock - StartClock) \div TickLen

Tick ==
  /\ Ticks < MaxTicks
  /\ clock' = clock + TickLen
  /\ UNCHANGED <<table, lastWrite, pc, handler, locals, result, obs>>

\* ------------------------------------------------------- the requests
Idle == \A q \in Procs : pc[q] = "idle"

\* A request arrives and is served by the first free worker.
Start(p, h, label) ==
  /\ pc[p] = "idle"
  /\ \A q \in Procs : q < p => pc[q] # "idle"
  /\ handler' = [handler EXCEPT ![p] = h]
  /\ pc' = [pc EXCEPT ![p] = label]
  /\ UNCHANGED <<clock, table, lastWrite, locals, result, obs>>

\* The answer has been sent; the worker is free again.
Finish(p) ==
  /\ pc[p] = "done"
  /\ pc' = [pc EXCEPT ![p] = "idle"]
  /\ handler' = [handler EXCEPT ![p] = "none"]
  /\ rows' = [rows EXCEPT ![p] = {}]
  /\ now' = [now EXCEPT ![p] = NoInt]
  /\ refresh_token' = [refresh_token EXCEPT ![p] = None]
  /\ resp' = [resp EXCEPT ![p] = NoResponse]
  /\ data' = [data EXCEPT ![p] = NoBody]
  /\ token' = [token EXCEPT ![p] = None]
  /\ cursor' = [cursor EXCEPT ![p] = None]
  /\ all_items' = [all_items EXCEPT ![p] = << >>]
  /\ page' = [page EXCEPT ![p] = 1]
  /\ open_id' = [open_id EXCEPT ![p] = None]
  /\ result' = [result EXCEPT ![p] = NoResult]
  /\ obs' = [obs EXCEPT ![p] = NoObs]
  /\ UNCHANGED <<clock, table, lastWrite>>

\* get_tokens_row, as called by get_valid_access_token and force_refresh.
AfterRead(label) ==
  CASE label = "gvat_read" -> "gvat_check"
    [] label = "fr_read" -> "fr_check"
    [] label = "fr_reread" -> "fr_return"

get_tokens_row(p) ==
  /\ pc[p] \in {"gvat_read", "fr_read", "fr_reread"}
  /\ rows' = [rows EXCEPT ![p] = SelectTokens(table)]
  /\ Goto(p, AfterRead(pc[p]))
  /\ UNCHANGED <<clock, table, lastWrite, handler, now, refresh_token, resp, data, token, cursor,
                 all_items, page, open_id, obs>>

\* The comparison of line 94 the wrong way round.
StillValidReversed(row, t) == Truthy(row.access_token) /\ ExpiresAtOr0(row) < t

\* get_valid_access_token's test of the row it read (line 94).
StillValid(row, t) == Truthy(row.access_token) /\ t < ExpiresAtOr0(row)

\* Line 99's test left out.
NoRefreshTokenUnchecked(row) == FALSE

\* if not refresh_token (line 99)
NoRefreshToken(row) == ~Truthy(row.refresh_token)

\* get_valid_access_token after its read: lines 87-102.  At "gvat_return" the
\* function has returned token[p] to fetch_all_videos.
get_valid_access_token(p) ==
  /\ pc[p] = "gvat_check"
  /\ now' = [now EXCEPT ![p] = Some(clock)]
  /\ UNCHANGED <<clock, table, lastWrite, handler, rows, resp, data, cursor, all_items, page,
                 open_id>>
  /\ IF ~HasRow(rows[p])
     THEN /\ Raise(p, Exc("RuntimeError", NoInt, None))
          /\ Obs(p, "gvat", "config")
          /\ UNCHANGED <<token, refresh_token>>
     ELSE LET row == RowOf(rows[p])
              checked == [obs[p] EXCEPT !.checks = @ + 1] IN
          IF StillValid(row, clock)
          THEN /\ token' = [token EXCEPT ![p] = row.access_token]
               /\ Goto(p, "gvat_return")
               /\ obs' = [obs EXCEPT ![p] = [checked EXCEPT !.gvat = "stored"]]
               /\ UNCHANGED refresh_token
          ELSE IF NoRefreshToken(row)
          THEN /\ Raise(p, Exc("RuntimeError", NoInt, None))
               /\ obs' = [obs EXCEPT ![p] = [checked EXCEPT !.gvat = "config"]]
               /\ UNCHANGED <<token, refresh_token>>
          ELSE /\ refresh_token' = [refresh_token EXCEPT ![p] = row.refresh_token]
               /\ Goto(p, "refresh_post")
               /\ obs' = [obs EXCEPT ![p] = checked]
               /\ UNCHANGED token

\* Line 118 with > for >=.
IsErrorAbove(status) == status > 400

\* The status test of refresh_access_token and oauth_callback (lines 118, 237).
IsError(status) == status >= 400

\* An upstream error that drops the response's status and body.
UpstreamErrorBare(r) == Exc("HTTPException", NoInt, None)

\* The exception of lines 119-123 and 238-242: the status and the body.
UpstreamError(r) == Exc("HTTPException", r.status_code, r.document)

\* What requests.post returned from the token endpoint is handled: lines
\* 118-125 and 237-244.  A document without access_token does not parse.
HandleTokenResponse(p, r, body, label) ==
  /\ resp' = [resp EXCEPT ![p] = r]
  /\ IF IsError(r.status_code[1])
     THEN Raise(p, UpstreamError(r)) /\ UNCHANGED data
     ELSE IF r.document # "token"
     THEN Raise(p, Exc("ValueError", NoInt, None)) /\ UNCHANGED data
     ELSE data' = [data EXCEPT ![p] = body] /\ Goto(p, label)

\* The token endpoint answers, or does not: every response it can give.
TokenEndpoint(p, label) ==
  \/ /\ Raise(p, Exc("ConnectionError", NoInt, None))
     /\ UNCHANGED <<resp, data>>
  \/ \E status \in Statuses, err \in ErrorBodies :
       HandleTokenResponse(p, Response(status, err), NoBody, label)
  \/ \E status \in Statuses, body \in TokenBodies :
       HandleTokenResponse(p, Response(status, "token"), body, label)

\* refresh_access_token, the request: lines 108-125.
refresh_post(p) ==
  /\ pc[p] = "refresh_post"
  /\ obs' = [obs EXCEPT ![p].refreshReqs = @ + 1]
  /\ TokenEndpoint(p, "refresh_upsert")
  /\ UNCHANGED <<clock, table, lastWrite, handler, rows, now, refresh_token, token, cursor,
                 all_items, page, open_id>>

\* Line 128 that always keeps the argument.
GetOrDefault(v, default) == default

\* data.get("refresh_token", refresh_token)
GetOr(v, default) == IF v = None THEN default ELSE v

\* Lines 130 and 248 without the default.
ExpiresInDeclared(d) == d.expires_in

\* int(data.get("expires_in", 3600))
ExpiresIn(d) == IF d.expires_in = NoInt THEN Some(DefaultExpiresIn) ELSE d.expires_in

\* Where refresh_access_token returns to.
AfterRefresh(h) == IF h = "run" THEN "gvat_return" ELSE "fr_reread"

\* refresh_access_token, the write and the return: lines 127-138.
refresh_upsert(p) ==
  /\ pc[p] = "refresh_upsert"
  /\ table' = upsert_tokens(table, data[p].access_token,
                            GetOr(data[p].refresh_token, refresh_token[p]),
                            data[p].scope, ExpiresIn(data[p]), None, clock)
  /\ lastWrite' = Wrote(p, table')
  /\ token' = [token EXCEPT ![p] = data[p].access_token]
  /\ obs' = [obs EXCEPT ![p] = [@ EXCEPT !.writes = @ + 1,
                 !.gvat = IF handler[p] = "run" THEN "refreshed" ELSE @]]
  /\ Goto(p, AfterRefresh(handler[p]))
  /\ UNCHANGED <<clock, handler, rows, now, refresh_token, resp, data, cursor,
                 all_items, page, open_id>>

\* Line 279 without its second test.
NoStoredRow(rs) == ~HasRow(rs)

\* if not row or not row.get("refresh_token") (line 279)
NoStoredRefreshToken(rs) == ~HasRow(rs) \/ ~Truthy(RowOf(rs).refresh_token)

\* force_refresh: lines 279-281, after its first read.
force_refresh(p) ==
  /\ pc[p] = "fr_check"
  /\ UNCHANGED <<clock, table, lastWrite, handler, rows, now, resp, data, token, cursor,
                 all_items, page, open_id, obs>>
  /\ IF NoStoredRefreshToken(rows[p])
     THEN /\ Raise(p, Exc("HTTPException", Some(BadRequest), None))
          /\ UNCHANGED refresh_token
     ELSE /\ refresh_token' = [refresh_token EXCEPT ![p] = RowOf(rows[p]).refresh_token]
          /\ Goto(p, "refresh_post")

\* force_refresh: line 282, after its second read.
force_refresh_return(p) ==
  /\ pc[p] = "fr_return"
  /\ IF HasRow(rows[p])
     THEN Answer(p, Returned(TRUE, NoInt, NoInt, RowOf(rows[p]).expires_at))
     ELSE Raise(p, Exc("AttributeError", NoInt, None))
  /\ UNCHANGED <<clock, table, lastWrite, handler, locals, obs>>

\* ------------------------------------------------------- video listing
\* The JSON documents the video-list endpoint answers with: data.videos,
\* data.has_more, data.cursor (an absent has_more reads False, an absent
\* cursor None).  Each way of ending or continuing the listing is there, and
\* the videos tell the documents apart.
Pages ==
  { [videos |-> <<1>>,    has_more |-> TRUE,  cursor |-> "c1"],
    [videos |-> <<2, 3>>, has_more |-> TRUE,  cursor |-> "c2"],
    [videos |-> <<4>>,    has_more |-> FALSE, cursor |-> None],
    [videos |-> <<5>>,    has_more |-> FALSE, cursor |-> "c1"],
    [videos |-> << >>,    has_more |-> TRUE,  cursor |-> ""],
    [videos |-> <<6>>,    has_more |-> TRUE,  cursor |-> None] }

\* fetch_all_videos has its token: lines 162-165.  The frames of
\* get_valid_access_token and refresh_access_token are gone.
fetch_all_videos_init(p) ==
  /\ pc[p] = "gvat_return"
  /\ rows' = [rows EXCEPT ![p] = {}]
  /\ now' = [now EXCEPT ![p] = NoInt]
  /\ refresh_token' = [refresh_token EXCEPT ![p] = None]
  /\ resp' = [resp EXCEPT ![p] = NoResponse]
  /\ data' = [data EXCEPT ![p] = NoBody]
  /\ all_items' = [all_items EXCEPT ![p] = << >>]
  /\ cursor' = [cursor EXCEPT ![p] = None]
  /\ page' = [page EXCEPT ![p] = 1]
  /\ Goto(p, "list")
  /\ UNCHANGED <<clock, table, lastWrite, handler, token, open_id, obs>>

\* A request that carries no token.
AuthorizationNone(tok) == None

\* headers = {"Authorization": f"Bearer {access_token}"}: lines 145 and 259.
Authorization(tok) == tok

\* The token the requests of one handler have carried, after one more.
Carried(before, first, tok) ==
  IF first \/ before = Authorization(tok) THEN Authorization(tok) ELSE "mixed"

\* api_post that prints the error and forgets raise_for_status.
NeverRaises(status) == FALSE

\* api_post's error branch: line 149 enters it, raise_for_status raises for a
\* client or server error status only.
RaisesForStatus(status) == status >= 400 /\ (400 =< status /\ status < 600)

\* all_items.extend(videos)
Extend(items, videos) == items \o videos

\* Line 187 with "and" for "or".
BreakWhenBoth(has_more, c) == ~has_more /\ ~Truthy(c)

\* if not has_more or not cursor: break
Break(has_more, c) == ~has_more \/ ~Truthy(c)

\* A request body that never carries the cursor.
BodyCursorNone(c) == None

\* if cursor: body["cursor"] = cursor
BodyCursor(c) == IF Truthy(c) THEN c ELSE None

\* The body of a page request, lines 168-173; cursor None: no such key.
Body(max_count, c) ==
  [max_count |-> max_count, fields |-> VIDEO_FIELDS, cursor |-> BodyCursor(c)]

\* One turn of fetch_all_videos' loop, lines 168-190, and its return, line
\* 193, with which cursor and page are gone.
fetch_all_videos(p) ==
  /\ pc[p] = "list"
  /\ page[p] <= MaxPages
  /\ UNCHANGED <<clock, table, lastWrite, handler, rows, now, refresh_token, resp, data, token,
                 open_id>>
  /\ LET seen == [obs[p] EXCEPT
                    !.pageReqs = @ + 1,
                    !.bearer = Carried(@, obs[p].pageReqs = 0, token[p]),
                    !.echo = @ /\ Body(MAX_COUNT, cursor[p]).cursor =
                                    (IF obs[p].pageReqs = 0 THEN None
                                     ELSE obs[p].respCursor),
                    !.shape = @ /\ Body(MAX_COUNT, cursor[p]).max_count = 20
                                /\ Body(MAX_COUNT, cursor[p]).fields = VIDEO_FIELDS,
                    !.pageStatus = NoInt] IN
     \/ \* no response
        /\ Raise(p, Exc("ConnectionError", NoInt, None))
        /\ obs' = [obs EXCEPT ![p] = seen]
        /\ UNCHANGED <<cursor, all_items, page>>
     \/ \E status \in PageStatuses :
          \* a response that holds no JSON document
          /\ obs' = [obs EXCEPT ![p] = [seen EXCEPT !.pageStatus = Some(status)]]
          /\ UNCHANGED <<cursor, all_items, page>>
          /\ IF RaisesForStatus(status)
             THEN Raise(p, Exc("HTTPError", Some(status), None))
             ELSE Raise(p, Exc("ValueError", NoInt, None))
     \/ \E status \in PageStatuses, doc \in Pages :
          \* a response that holds a JSON document
          IF RaisesForStatus(status)
          THEN /\ Raise(p, Exc("HTTPError", Some(status), None))
               /\ obs' = [obs EXCEPT ![p] = [seen EXCEPT !.pageStatus = Some(status)]]
               /\ UNCHANGED <<cursor, all_items, page>>
          ELSE /\ all_items' = [all_items EXCEPT ![p] = Extend(@, doc.videos)]
               /\ obs' = [obs EXCEPT ![p] =
                            [seen EXCEPT !.pageStatus = Some(status),
                                         !.respCursor = doc.cursor,
                                         !.sent = @ \o doc.videos,
                                         !.stop = ~doc.has_more \/ doc.cursor \in {None, ""}]]
               /\ IF Break(doc.has_more, doc.cursor)
                  THEN /\ cursor' = [cursor EXCEPT ![p] = None]
                       /\ page' = [page EXCEPT ![p] = 1]
                       /\ Goto(p, "relay")
                  ELSE /\ cursor' = [cursor EXCEPT ![p] = doc.cursor]
                       /\ page' = [page EXCEPT ![p] = @ + 1]
                       /\ UNCHANGED <<pc, result>>

\* ---------------------------------------------------------------- relay
WebhookStatuses == {200, 503}

\* A relay that reports ok from the webhook's status.
RelayResultByStatus(status, videos) ==
  Returned(status < 400, Some(status), Some(Len(videos)), NoInt)

\* call_n8n's result inside run_now's {"ok": True, **result}: lines 204, 214.
RelayResult(status, videos) == Returned(TRUE, Some(status), Some(Len(videos)), NoInt)

\* call_n8n after fetch_all_videos has returned: lines 198-204, and run_now's
\* return of {"ok": True, **result}.
call_n8n(p) ==
  /\ pc[p] = "relay"
  /\ UNCHANGED <<clock, table, lastWrite, handler, locals>>
  /\ LET seen == [obs[p] EXCEPT !.posts = @ + 1, !.posted = Some(Len(all_items[p]))] IN
     \/ /\ Raise(p, Exc("ConnectionError", NoInt, None))
        /\ obs' = [obs EXCEPT ![p] = seen]
     \/ \E status \in WebhookStatuses :
          /\ Answer(p, RelayResult(status, all_items[p]))
          /\ obs' = [obs EXCEPT ![p] = [seen EXCEPT !.postStatus = Some(status)]]

\* ------------------------------------------------------- OAuth callback
\* oauth_callback, step 1: the code exchange, lines 225-248.
oauth_callback(p) ==
  /\ pc[p] = "cb_exchange"
  /\ obs' = [obs EXCEPT ![p].exchangeReqs = @ + 1]
  /\ TokenEndpoint(p, "cb_upsert")
  /\ UNCHANGED <<clock, table, lastWrite, handler, rows, now, refresh_token, token, cursor,
                 all_items, page, open_id>>

\* oauth_callback, step 2: lines 251-256.
oauth_callback_save(p) ==
  /\ pc[p] = "cb_upsert"
  /\ table' = upsert_tokens(table, data[p].access_token, data[p].refresh_token,
                            data[p].scope, ExpiresIn(data[p]), None, clock)
  /\ lastWrite' = Wrote(p, table')
  /\ token' = [token EXCEPT ![p] = data[p].access_token]
  /\ obs' = [obs EXCEPT ![p].writes = @ + 1]
  /\ Goto(p, "cb_info")
  /\ UNCHANGED <<clock, handler, rows, now, refresh_token, resp, data, cursor,
                 all_items, page, open_id>>

\* The status test of step 3 (line 265).
InfoOk(status) == status < 400

\* oauth_callback, step 3: the user-info request, lines 259-268 and 271.
oauth_callback_info(p) ==
  /\ pc[p] = "cb_info"
  /\ UNCHANGED <<clock, table, lastWrite, handler, rows, now, refresh_token, resp, data, token,
                 cursor, all_items, page>>
  /\ LET seen == [obs[p] EXCEPT !.infoReqs = @ + 1,
                                !.bearer = Carried(@, TRUE, token[p])] IN
     \/ \* no response: requests.get raises, nothing catches
        /\ Raise(p, Exc("ConnectionError", NoInt, None))
        /\ obs' = [obs EXCEPT ![p] = seen]
        /\ UNCHANGED open_id
     \/ \E status \in Statuses :
          \* a response that holds no JSON document
          /\ obs' = [obs EXCEPT ![p] = [seen EXCEPT !.infoStatus = Some(status)]]
          /\ UNCHANGED open_id
          /\ IF InfoOk(status)
             THEN Raise(p, Exc("ValueError", NoInt, None))
             ELSE Answer(p, Returned(TRUE, NoInt, NoInt, NoInt))
     \/ \E status \in Statuses, id \in OpenIds \cup {None, ""} :
          \* a response that holds a JSON document, data.user.open_id = id
          /\ obs' = [obs EXCEPT ![p] = [seen EXCEPT !.infoStatus = Some(status)]]
          /\ IF InfoOk(status) /\ Truthy(id)
             THEN /\ open_id' = [open_id EXCEPT ![p] = id]
                  /\ Goto(p, "cb_upsert_id")
             ELSE /\ Answer(p, Returned(TRUE, NoInt, NoInt, NoInt))
                  /\ UNCHANGED open_id

\* oauth_callback, line 269 and the return of line 271.
oauth_callback_open_id(p) ==
  /\ pc[p] = "cb_upsert_id"
  /\ table' = upsert_tokens(table, None, None, None, NoInt, open_id[p], clock)
  /\ obs' = [obs EXCEPT ![p].writes = @ + 1]
  /\ Answer(p, Returned(TRUE, NoInt, NoInt, NoInt))
  /\ UNCHANGED <<clock, handler, locals, lastWrite>>

\* ------------------------------------------------------ specifications
\* The three endpoints; in Spec a request arrives when no other is served.
run_now(p) == Idle /\ Start(p, "run", "gvat_read")
callback_request(p) == Idle /\ Start(p, "callback", "cb_exchange")
refresh_request(p) == Idle /\ Start(p, "refresh", "fr_read")

Next ==
  \/ Tick
  \/ \E p \in Procs :
       \/ run_now(p)
       \/ callback_request(p)
       \/ refresh_request(p)
       \/ get_tokens_row(p)
       \/ get_valid_access_token(p)
       \/ refresh_post(p)
       \/ refresh_upsert(p)
       \/ force_refresh(p)
       \/ force_refresh_return(p)
       \/ fetch_all_videos_init(p)
       \/ fetch_all_videos(p)
       \/ call_n8n(p)
       \/ oauth_callback(p)
       \/ oauth_callback_save(p)
       \/ oauth_callback_info(p)
       \/ oauth_callback_open_id(p)
       \/ Finish(p)

Spec == Init /\ [][Next]_vars

\* Overlapping requests.  The table outlives the service: it is empty, or
\* holds the row an exchange one tick before the start has left, whose
\* response declared a lifetime (the token has expired by now) or none (it
\* has not).
EarlierRows ==
  { Merge(NewRow, Payload("A", "R", "video.list", ExpiresIn(b), None,
                          StartClock - TickLen)) :
      b \in {d \in TokenBodies : d.expires_in = NoInt \/ d.expires_in[1] < Margin} }

InitOverlap ==
  /\ clock = StartClock
  /\ table \in {{}} \cup {{r} : r \in EarlierRows}
  /\ pc = [p \in Procs |-> "idle"]
  /\ handler = [p \in Procs |-> "none"]
  /\ rows = [p \in Procs |-> {}]
  /\ now = [p \in Procs |-> NoInt]
  /\ refresh_token = [p \in Procs |-> None]
  /\ resp = [p \in Procs |-> NoResponse]
  /\ data = [p \in Procs |-> NoBody]
  /\ token = [p \in Procs |-> None]
  /\ cursor = [p \in Procs |-> None]
  /\ all_items = [p \in Procs |-> << >>]
  /\ page = [p \in Procs |-> 1]
  /\ open_id = [p \in Procs |-> None]
  /\ result = [p \in Procs |-> NoResult]
  /\ obs = [p \in Procs |-> NoObs]
  /\ lastWrite = NoWrite

\* The token documents the provider answers with in Overlap: either access
\* token, a rotated refresh_token or none, either lifetime, no scope.
OverlapBodies ==
  {b \in TokenBodies : b.refresh_token # "R" /\ b.scope = None /\ b.expires_in # NoInt}

\* A request arrives while another may be under way.
run_now_overlapping(p) == Start(p, "run", "gvat_read")
callback_overlapping(p) == Start(p, "callback", "cb_exchange")
refresh_overlapping(p) == Start(p, "refresh", "fr_read")

\* Every worker serves one request, up to the point where GET / has its
\* token: the steps that read or write the table, in every interleaving.
NextOverlap ==
  \E p \in Procs :
    \/ run_now_overlapping(p)
    \/ callback_overlapping(p)
    \/ refresh_overlapping(p)
    \/ get_tokens_row(p)
    \/ get_valid_access_token(p)
    \/ refresh_post(p) /\ data'[p] \in OverlapBodies \cup {NoBody}
    \/ refresh_upsert(p)
    \/ force_refresh(p)
    \/ force_refresh_return(p)
    \/ oauth_callback(p) /\ data'[p] \in OverlapBodies \cup {NoBody}
    \/ oauth_callback_save(p)
    \/ oauth_callback_info(p)
    \/ oauth_callback_open_id(p)

Overlap == InitOverlap /\ [][NextOverlap]_vars

\* =============================================================== claims
\* get_valid_access_token has run to its end in request p and its frame is
\* still there: rows[p] is the row it read, now[p] the clock it read.
GvatEnded(p) ==
  /\ handler[p] = "run"
  /\ pc[p] \in {"gvat_return", "done"}
  /\ now[p] # NoInt

\* The stored row, when there is one.
Stored == RowOf(SelectTokens(table))

\* C1: when the row get_valid_access_token read has expires_at > now, the
\* function returns that row's access_token, no refresh request has been sent
\* and no upsert executed.
C1_FreshTokenReturnedAsStored ==
  \A p \in Procs :
    (GvatEnded(p) /\ HasRow(rows[p]) /\ ExpiresAtOr0(RowOf(rows[p])) > now[p][1])
      => /\ pc[p] = "gvat_return"
         /\ token[p] = RowOf(rows[p]).access_token
         /\ obs[p].refreshReqs = 0
         /\ obs[p].writes = 0
         /\ table = rows[p]

C1_Witness ==
  \E p \in Procs :
    /\ GvatEnded(p) /\ HasRow(rows[p])
    /\ ExpiresAtOr0(RowOf(rows[p])) > now[p][1]
    /\ now[p][1] > StartClock
    /\ token[p] = RowOf(rows[p]).access_token

\* C2: when the row read has expires_at <= now and a refresh_token, exactly one
\* refresh request has been sent by the end of get_valid_access_token; when the
\* refresh went through, the stored access_token is the response's, it is the
\* token returned, and the stored expires_at is the clock of the write (kept in
\* updated_at) + the declared expires_in - 60.
C2_ExpiredTokenRefreshedOnce ==
  \A p \in Procs :
    (GvatEnded(p) /\ HasRow(rows[p]) /\ ExpiresAtOr0(RowOf(rows[p])) =< now[p][1]
       /\ RowOf(rows[p]).refresh_token \notin {None, ""})
      => /\ obs[p].refreshReqs = 1
         /\ pc[p] = "gvat_return" =>
              /\ data[p] \in TokenBodies
              /\ token[p] = data[p].access_token
              /\ Stored.access_token = data[p].access_token
              /\ data[p].expires_in # NoInt =>
                   Stored.expires_at = Some(Stored.updated_at[1] + data[p].expires_in[1] - 60)
              /\ Stored.updated_at[1] >= now[p][1]

C2_Witness ==
  \E p \in Procs :
    /\ GvatEnded(p) /\ pc[p] = "gvat_return" /\ HasRow(rows[p])
    /\ ExpiresAtOr0(RowOf(rows[p])) =< now[p][1]
    /\ RowOf(rows[p]).refresh_token \notin {None, ""}
    /\ data[p].expires_in # NoInt
    /\ Stored.access_token # RowOf(rows[p]).access_token
    /\ obs[p].refreshReqs = 1

\* C3: when get_valid_access_token read no row, or read a row that needs a
\* refresh (no access_token, or expires_at <= now) and has no refresh_token, the
\* request ends with the configuration error, no request to the provider has
\* been sent and no upsert executed.
C3_NoCredentialIsConfigurationError ==
  \A p \in Procs :
    (GvatEnded(p) /\
       \/ ~HasRow(rows[p])
       \/ /\ RowOf(rows[p]).refresh_token \in {None, ""}
          /\ \/ RowOf(rows[p]).access_token \in {None, ""}
             \/ ExpiresAtOr0(RowOf(rows[p])) =< now[p][1])
      => /\ pc[p] = "done"
         /\ result[p].ok = FALSE
         /\ result[p].error = "RuntimeError"
         /\ obs[p].refreshReqs = 0 /\ obs[p].pageReqs = 0
         /\ obs[p].writes = 0
         /\ table = rows[p]

C3_Witness ==
  \E p \in Procs :
    /\ GvatEnded(p) /\ HasRow(rows[p])
    /\ RowOf(rows[p]).refresh_token = None
    /\ ExpiresAtOr0(RowOf(rows[p])) =< now[p][1]
    /\ result[p].error = "RuntimeError"

\* fetch_all_videos has returned its list in request p.
ListReturned(p) ==
  handler[p] = "run" /\ (pc[p] = "relay" \/ (pc[p] = "done" /\ obs[p].posts > 0))

\* C4: a page is requested only while every page document before it declared
\* more results and a non-empty cursor; fetch_all_videos returns only after a
\* document that did not, and returns the videos of the documents it
\* received, concatenated in the order received.
C4_PaginationStopsAtFirstLastPage ==
  \A p \in Procs :
    /\ (pc[p] = "list" /\ obs[p].pageReqs > 0) => ~obs[p].stop
    /\ ListReturned(p) => (obs[p].stop /\ all_items[p] = obs[p].sent)
    /\ pc[p] = "list" => all_items[p] = obs[p].sent

C4_Witness ==
  \E p \in Procs :
    /\ ListReturned(p) /\ pc[p] = "relay"
    /\ obs[p].pageReqs = 3
    /\ all_items[p] = <<2, 3, 1, 4>>

\* The columns the upsert that p is about to execute supplies, updated_at
\* included; none when p's next step is no upsert.
Supplied(p) ==
  CASE pc[p] = "cb_upsert_id" -> {"account_open_id", "updated_at"}
    [] pc[p] = "cb_upsert" ->
         {"access_token", "expires_at", "updated_at"}
         \cup (IF data[p].refresh_token # None THEN {"refresh_token"} ELSE {})
         \cup (IF data[p].scope # None THEN {"scope"} ELSE {})
    [] pc[p] = "refresh_upsert" ->
         {"access_token", "expires_at", "refresh_token", "updated_at"}
         \cup (IF data[p].scope # None THEN {"scope"} ELSE {})
    [] OTHER -> {}

\* C5: every step leaves each column of the existing row that the upsert it
\* executes does not supply as it was, and the row in place; the upsert of
\* account_open_id alone changes nothing but account_open_id and updated_at.
C5_UpsertKeepsUnsuppliedFields ==
  [][table # {} =>
       /\ table' # {}
       /\ \A f \in Fields \ UNION {Supplied(p) : p \in Procs} :
            RowOf(SelectTokens(table'))[f] = RowOf(SelectTokens(table))[f]]_vars

C5_Witness ==
  \E p \in Procs :
    /\ handler[p] = "callback" /\ pc[p] = "done" /\ obs[p].writes = 2
    /\ Stored.account_open_id = open_id[p] /\ open_id[p] \in OpenIds
    /\ Stored.access_token = data[p].access_token
    /\ Stored.refresh_token \in RefreshTokens
    /\ Stored.scope \in Scopes
    /\ Stored.expires_at # NoInt

Is2xx(status) == 200 =< status /\ status < 300

\* The token endpoint has answered p's refresh request.
RefreshAnswered(p) == handler[p] \in {"run", "refresh"} /\ resp[p].status_code # NoInt

\* refresh_access_token failed in p with the upstream error that carries the
\* response's status and body, after one request and without an upsert.
RefreshFailedUpstream(p) ==
  /\ pc[p] = "done"
  /\ result[p].ok = FALSE
  /\ result[p].error = "HTTPException"
  /\ result[p].status_code = resp[p].status_code
  /\ result[p].body = resp[p].document
  /\ obs[p].refreshReqs = 1
  /\ obs[p].writes = 0

\* C6 as stated: every non-2xx response to a refresh request makes
\* refresh_access_token fail, after one attempt and without a write.  The
\* kind of the error is left open here: only a refresh that goes on refutes it.
C6_Non2xxRefreshFails ==
  \A p \in Procs :
    (RefreshAnswered(p) /\ ~Is2xx(resp[p].status_code[1]))
      => /\ pc[p] = "done"
         /\ result[p].ok = FALSE /\ result[p].error # "none"
         /\ obs[p].refreshReqs = 1
         /\ obs[p].writes = 0

\* C6, amended: every response with a status of 400 or more to a refresh
\* request makes refresh_access_token fail with the upstream error that
\* carries its status and body, after one attempt and without a write.
C6_ErrorStatusRefreshFails ==
  \A p \in Procs :
    (RefreshAnswered(p) /\ resp[p].status_code[1] >= 400) => RefreshFailedUpstream(p)

C6_Witness ==
  \E p \in Procs :
    /\ RefreshAnswered(p) /\ resp[p].status_code = Some(503)
    /\ RefreshFailedUpstream(p)
    /\ result[p].body \in ErrorBodies

\* The listing failed in p: GET / answered with the upstream error of the
\* page's status, returned no list and posted nothing.
ListingFailed(p) ==
  /\ pc[p] = "done"
  /\ result[p].ok = FALSE
  /\ result[p].error = "HTTPError"
  /\ result[p].status_code = obs[p].pageStatus
  /\ result[p].count = NoInt
  /\ obs[p].posts = 0

\* C7 as stated: a non-2xx response to a page request makes the whole listing
\* fail; no list is returned, no further page requested, nothing posted.  The
\* kind of the error is left open here: only a listing that goes on refutes it.
C7_Non2xxPageFails ==
  \A p \in Procs :
    (handler[p] = "run" /\ obs[p].pageStatus # NoInt /\ ~Is2xx(obs[p].pageStatus[1]))
      => /\ pc[p] = "done"
         /\ result[p].ok = FALSE /\ result[p].error # "none"
         /\ result[p].count = NoInt
         /\ obs[p].posts = 0

\* C7, amended: a response with a client or server error status (400..599) to
\* a page request makes the whole listing fail; no list is returned, no
\* further page requested, nothing posted.
C7_ErrorStatusPageFails ==
  \A p \in Procs :
    (/\ handler[p] = "run" /\ obs[p].pageStatus # NoInt
     /\ obs[p].pageStatus[1] >= 400 /\ obs[p].pageStatus[1] < 600)
      => ListingFailed(p)

C7_Witness ==
  \E p \in Procs :
    /\ handler[p] = "run" /\ obs[p].pageStatus = Some(503)
    /\ obs[p].pageReqs = 3 /\ Len(obs[p].sent) = 3
    /\ ListingFailed(p)

\* GET / has answered in p after its post to the webhook.
RelayDone(p) == handler[p] = "run" /\ pc[p] = "done" /\ obs[p].posts = 1

\* C8 as stated: when the webhook is unreachable or answers with an error
\* status, GET / answers ok:false with an error.
C8_RelayErrorIsNotOk ==
  \A p \in Procs :
    (RelayDone(p) /\ (obs[p].postStatus = NoInt \/ obs[p].postStatus[1] >= 400))
      => (result[p].outcome = "returned" /\ ~result[p].ok /\ result[p].error # "none")

\* C8, amended: when the webhook is unreachable GET / answers ok:false with
\* the error; when the webhook answers, whatever its status, GET / answers
\* ok:true and hands that status on as n8n_status.
C8_RelayStatusPassedThrough ==
  \A p \in Procs :
    RelayDone(p) =>
      /\ result[p].outcome = "returned"
      /\ obs[p].postStatus = NoInt =>
           (~result[p].ok /\ result[p].error = "ConnectionError")
      /\ obs[p].postStatus # NoInt =>
           (result[p].ok /\ result[p].n8n_status = obs[p].postStatus)

C8_Witness ==
  \E p \in Procs :
    /\ RelayDone(p) /\ obs[p].postStatus = Some(503)
    /\ result[p].ok /\ result[p].n8n_status = Some(503)

\* C9: GET / always answers with a body.  The body says ok:true only when
\* get_valid_access_token returned a token, the listing ran to a last page,
\* and the webhook was posted once, after it, with every video received, count
\* being their number; a configuration error, a failed refresh, a failed
\* listing and a post that raised all give ok:false with the error.
C9_RunAnswersInTheBody ==
  \A p \in Procs :
    (handler[p] = "run" /\ pc[p] = "done") =>
      /\ result[p].outcome = "returned"
      /\ result[p].ok =>
           /\ obs[p].gvat \in {"stored", "refreshed"}
           /\ token[p] \in AccessTokens
           /\ obs[p].pageReqs >= 1 /\ obs[p].stop
           /\ obs[p].posts = 1 /\ obs[p].postStatus # NoInt
           /\ obs[p].posted = Some(Len(obs[p].sent))
           /\ result[p].count = Some(Len(obs[p].sent))
           /\ result[p].error = "none"
      /\ ~result[p].ok =>
           /\ result[p].error # "none"
           /\ result[p].count = NoInt /\ result[p].n8n_status = NoInt
      /\ (\/ obs[p].gvat \notin {"stored", "refreshed"}
          \/ ~obs[p].stop
          \/ obs[p].posts = 0
          \/ obs[p].postStatus = NoInt) => ~result[p].ok

C9_Witness ==
  \E p \in Procs :
    /\ handler[p] = "run" /\ pc[p] = "done" /\ result[p].ok
    /\ obs[p].gvat = "refreshed"
    /\ obs[p].pageReqs = 2
    /\ result[p].count = Some(3)

\* C10 as stated: after the code exchange has succeeded and its tokens are
\* saved, a user-info request that gets no response or an error status leaves
\* the callback answering success, the tokens stored and account_open_id
\* untouched.
C10_UserInfoFailureSwallowed ==
  \A p \in Procs :
    (/\ handler[p] = "callback" /\ pc[p] = "done" /\ obs[p].infoReqs = 1
     /\ (obs[p].infoStatus = NoInt \/ obs[p].infoStatus[1] >= 400))
      => /\ result[p].outcome = "returned" /\ result[p].ok
         /\ obs[p].writes = 1
         /\ Stored.access_token = data[p].access_token

\* The token endpoint has answered p's code exchange.
ExchangeAnswered(p) == handler[p] = "callback" /\ resp[p].status_code # NoInt

\* C11: when the token endpoint answers the code exchange with an error status
\* (400 or more), the callback fails with an error of that status carrying the
\* response's body; no upsert has been executed, the table is as the request
\* found it, and no user-info request has been sent.
C11_ExchangeErrorPropagated ==
  \A p \in Procs :
    (ExchangeAnswered(p) /\ resp[p].status_code[1] >= 400)
      => /\ pc[p] = "done"
         /\ result[p].outcome = "raised"
         /\ result[p].error = "HTTPException"
         /\ result[p].status_code = resp[p].status_code
         /\ result[p].body = resp[p].document
         /\ obs[p].exchangeReqs = 1
         /\ obs[p].writes = 0
         /\ obs[p].infoReqs = 0
         /\ token[p] = None

C11_Witness ==
  \E p \in Procs :
    /\ ExchangeAnswered(p) /\ resp[p].status_code = Some(400)
    /\ result[p].outcome = "raised" /\ result[p].status_code = Some(400)
    /\ result[p].body \in ErrorBodies
    /\ table # {} /\ Stored.access_token \in AccessTokens

\* C12: GET /refresh that read no row, or a row without refresh_token, fails
\* with status 400, having sent no request and executed no upsert; otherwise
\* it sends one refresh request with the refresh_token of the row it read,
\* whether or not that row's access_token is still valid, and when the refresh
\* went through it answers with the expires_at of the row as its upsert of the
\* response left it.
C12_ForcedRefresh ==
  \A p \in Procs :
    handler[p] = "refresh" =>
      /\ (pc[p] = "done" /\ obs[p].refreshReqs = 0) =>
           /\ ~HasRow(rows[p]) \/ RowOf(rows[p]).refresh_token \in {None, ""}
           /\ result[p].outcome = "raised"
           /\ result[p].error = "HTTPException"
           /\ result[p].status_code = Some(400)
           /\ obs[p].writes = 0
           /\ table = rows[p]
      /\ pc[p] = "refresh_post" =>
           /\ HasRow(rows[p])
           /\ RowOf(rows[p]).refresh_token \notin {None, ""}
           /\ refresh_token[p] = RowOf(rows[p]).refresh_token
           /\ obs[p].refreshReqs = 0 /\ obs[p].writes = 0
      /\ pc[p] \in {"refresh_upsert", "fr_reread", "fr_return"} => obs[p].refreshReqs = 1
      /\ (pc[p] = "done" /\ result[p].ok) =>
           /\ obs[p].refreshReqs = 1 /\ obs[p].writes = 1
           /\ result[p].outcome = "returned"
           /\ result[p].expires_at = Stored.expires_at
           /\ Stored.access_token = data[p].access_token
           /\ Stored.expires_at =
                Some(Stored.updated_at[1] - 60 +
                     (IF data[p].expires_in = NoInt THEN 3600 ELSE data[p].expires_in[1]))

\* The forced refresh of a row whose access_token was still valid.
C12_Witness ==
  \E p \in Procs :
    /\ handler[p] = "refresh" /\ pc[p] = "fr_reread"
    /\ HasRow(rows[p]) /\ RowOf(rows[p]).access_token \in AccessTokens
    /\ clock < ExpiresAtOr0(RowOf(rows[p]))
    /\ obs[p].refreshReqs = 1 /\ obs[p].writes = 1
    /\ Stored.access_token # RowOf(rows[p]).access_token
    /\ Stored.expires_at # RowOf(rows[p]).expires_at

\* refresh_access_token has just returned in p: rows[p] is still the row read
\* before the refresh, data[p] the response's document.
JustRefreshed(p) == pc[p] \in {"gvat_return", "fr_reread"} /\ obs[p].writes = 1

\* C13: after a successful refresh the stored refresh_token is the response's
\* when the response carries one and the value stored before when it does
\* not; the stored scope likewise is the value stored before when the
\* response carries none.
C13_RefreshTokenRotatedOrKept ==
  \A p \in Procs :
    JustRefreshed(p) =>
      /\ Stored.access_token = data[p].access_token
      /\ Stored.refresh_token =
           (IF data[p].refresh_token # None THEN data[p].refresh_token
            ELSE RowOf(rows[p]).refresh_token)
      /\ Stored.scope =
           (IF data[p].scope # None THEN data[p].scope ELSE RowOf(rows[p]).scope)

\* The scenario of the specification: the response carries neither.
C13_Witness ==
  \E p \in Procs :
    /\ JustRefreshed(p)
    /\ data[p].refresh_token = None /\ data[p].scope = None
    /\ Stored.refresh_token = "S" /\ Stored.scope \in Scopes
    /\ Stored.access_token # RowOf(rows[p]).access_token

\* p has executed its upsert of a token response, data[p], and no other upsert
\* since: the stored row is as that upsert left it.
WroteTokens(p) == obs[p].writes = 1 /\ data[p] \in TokenBodies

\* C14 as stated: every expires_at written, by the code exchange or by a
\* refresh, is the clock of the write + the expires_in the token response
\* declares - 60; none is computed from a lifetime the response did not
\* declare.
C14_ExpiresAtAlwaysDeclared ==
  \A p \in Procs :
    WroteTokens(p) =>
      /\ data[p].expires_in # NoInt
      /\ Stored.expires_at = Some(Stored.updated_at[1] + data[p].expires_in[1] - 60)

\* C14, amended: every expires_at written is the clock of the write + the
\* expires_in the token response declares - 60 when the response declares one,
\* and the clock of the write + 3600 - 60 when it declares none.
C14_ExpiresAtDeclaredOrDefault ==
  \A p \in Procs :
    WroteTokens(p) =>
      /\ data[p].expires_in # NoInt =>
           Stored.expires_at = Some(Stored.updated_at[1] + data[p].expires_in[1] - 60)
      /\ data[p].expires_in = NoInt =>
           Stored.expires_at = Some(Stored.updated_at[1] + 3600 - 60)

\* A refresh whose response declares no expires_in has written an expires_at.
C14_Witness ==
  \E p \in Procs :
    /\ WroteTokens(p) /\ handler[p] = "run"
    /\ data[p].expires_in = NoInt
    /\ Stored.expires_at = Some(clock + 3540)
    /\ Stored.expires_at # RowOf(rows[p]).expires_at

\* C15 as stated: every provider API request that carries an access_token
\* follows a test of the stored expires_at against the clock; in a listing run
\* there is exactly one such test, before the first page request, and every
\* page request carries the token it gave.
C15_TokenUsedOnlyAfterCheck ==
  \A p \in Procs :
    /\ obs[p].checks <= 1
    /\ obs[p].bearer # None =>
         (obs[p].checks = 1 /\ obs[p].bearer = token[p] /\ token[p] \in AccessTokens)

\* C15, amended: in a listing run the test of expires_at against the clock
\* happens exactly once, before the first page request, and every page
\* request carries the token that call of get_valid_access_token returned; the
\* user-info request of the callback carries the access_token of the code
\* exchange's response without any test of expires_at.
C15_OneCheckPerListingRun ==
  \A p \in Procs :
    /\ obs[p].checks <= 1
    /\ (handler[p] = "run" /\ (pc[p] \in {"list", "relay"} \/ obs[p].pageReqs > 0)) =>
         /\ obs[p].checks = 1
         /\ obs[p].gvat \in {"stored", "refreshed"}
         /\ token[p] \in AccessTokens
         /\ obs[p].pageReqs > 0 => obs[p].bearer = token[p]
    /\ (handler[p] = "callback" /\ obs[p].infoReqs > 0) =>
         /\ obs[p].checks = 0
         /\ obs[p].bearer = data[p].access_token
    /\ handler[p] = "refresh" => obs[p].bearer = None

\* Three page requests after one check, the last one sent when the stored
\* expires_at had passed.
C15_Witness ==
  \E p \in Procs :
    /\ handler[p] = "run" /\ obs[p].pageReqs = 3
    /\ obs[p].checks = 1 /\ obs[p].gvat = "stored"
    /\ obs[p].bearer = token[p] /\ token[p] = Stored.access_token
    /\ Stored.expires_at[1] <= clock

\* The lifetime upsert_tokens is given for the token document d.
LifetimeOf(d) == IF d.expires_in = NoInt THEN 3600 ELSE d.expires_in[1]

C17_OneRecordCreatedByExchange ==
  [][/\ Cardinality(table') <= 1
     /\ table # {} => table' # {}
     /\ (table = {} /\ table' # {}) =>
          \E p \in Procs :
            /\ handler[p] = "callback"
            /\ pc[p] = "cb_upsert" /\ pc'[p] = "cb_info"
            /\ resp[p].status_code[1] < 400 /\ resp[p].document = "token"]_vars

\* A callback has created the row and a run has refreshed it meanwhile.
C17_Witness ==
  /\ Cardinality(table) = 1
  /\ handler[1] = "callback" /\ obs[1].writes = 2
  /\ handler[2] = "run" /\ obs[2].writes = 1
  /\ rows[2] # {} /\ RowOf(rows[2]).account_open_id = None
  /\ RowOf(rows[2]).updated_at = Some(clock)
  /\ Stored.account_open_id \in OpenIds
  /\ Stored.access_token = data[2].access_token

\* C18: the first page request of a listing carries no cursor; every later
\* one carries the cursor of the page document received just before it, which
\* is never empty or absent; every request carries max_count 20 and the
\* field projection.
C18_CursorEchoed ==
  \A p \in Procs :
    handler[p] = "run" =>
      /\ obs[p].echo
      /\ obs[p].shape
      /\ (pc[p] = "list" /\ obs[p].pageReqs = 0) => Body(MAX_COUNT, cursor[p]).cursor = None
      /\ (pc[p] = "list" /\ obs[p].pageReqs > 0) =>
           /\ obs[p].respCursor \notin {None, ""}
           /\ Body(MAX_COUNT, cursor[p]).cursor = obs[p].respCursor

\* Three requests: the second carried "c1", the third "c2".
C18_Witness ==
  \E p \in Procs :
    /\ handler[p] = "run" /\ pc[p] = "relay"
    /\ obs[p].pageReqs = 3 /\ obs[p].echo
    /\ obs[p].sent = <<1, 2, 3, 5>>
    /\ obs[p].respCursor = "c1"

\* C19 (one request at a time): while the last upsert of a token response is
\* the refresh of a get_valid_access_token call whose response declared an
\* expires_in above 60, every later get_valid_access_token call that reads the
\* clock before the expires_at that refresh stored returns the token of that
\* refresh, sends no refresh request and writes nothing.
C19_RefreshedTokenReused ==
  \A p \in Procs :
    (/\ GvatEnded(p)
     /\ lastWrite.gvat
     /\ lastWrite.expires_in # NoInt /\ lastWrite.expires_in[1] > 60
     /\ obs[p].writes = 0
     /\ now[p][1] < lastWrite.expires_at[1])
      => /\ pc[p] = "gvat_return"
         /\ token[p] = lastWrite.access_token
         /\ obs[p].gvat = "stored"
         /\ obs[p].refreshReqs = 0
         /\ Stored.expires_at = lastWrite.expires_at

\* A later call, before the stored expires_at, has returned the token of the
\* refresh an earlier request made.
C19_Witness ==
  \E p \in Procs :
    /\ GvatEnded(p) /\ lastWrite.gvat
    /\ lastWrite.expires_in # NoInt /\ lastWrite.expires_in[1] > 60
    /\ obs[p].writes = 0
    /\ now[p][1] < lastWrite.expires_at[1]
    /\ token[p] = lastWrite.access_token
    /\ token[p] = RowOf(rows[p]).access_token
    /\ obs[p].refreshReqs = 0
====
